---- MODULE Spec2Model ----
(***************************************************************************)
(* A model of the two programs of the repository.                          *)
(*                                                                         *)
(*   imggen.py           the Streamlit web form: one script run per user   *)
(*                       interaction, query() around one HTTP POST.        *)
(*   IMAGE_GENERATOR.py  the desktop app: start_generation on the UI       *)
(*                       thread, generate_image on a worker thread.        *)
(*                                                                         *)
(* Strings and byte strings are sequences of one-character strings.        *)
(* Guidance-scale values are counted in tenths (7.5 is 75).                *)
(* The model choice and the negative prompt of the web form take no part   *)
(* in any branch of the code and are left out of the payload.              *)
(***************************************************************************)
EXTENDS Integers, Sequences, FiniteSets, TLC

VARIABLES
    \* ---- web form (imggen.py) ----
    pc,            \* where the script run is: "idle" (no run, or a run whose button was
                   \* not pressed), "running", "query", "posting", "waiting", "returned",
                   \* "stopped" (st.stop), "done", "crashed" (uncaught exception)
    hf_token,      \* the token widget's value read by this script run
    prompt,        \* the prompt widget's value read by this script run
    request,       \* the arguments of the pending query() call; sent: the POST is in flight
    posts,         \* HTTP POSTs issued by this script run
    response,      \* what requests.post returned or raised in this run
    image_bytes,   \* the value query() returned
    msgs,          \* st.error / st.warning / st.success calls of this run, in order
    rendered,      \* st.image and st.download_button were reached
    \* ---- desktop app (IMAGE_GENERATOR.py) ----
    prompt_entry,  \* text of self.prompt_entry
    gen_button,    \* [state, text] of self.gen_button
    status_label,  \* [text, color] of self.status_label
    image_display, \* image shown by self.image_display
    png_file,      \* contents of generated.png
    workers,       \* per thread: [pc, prompt, image, exc]
    clicks,        \* presses of the Generate button so far
    ignored        \* presses the disabled button swallowed

webVars == <<pc, hf_token, prompt, request, posts, response, image_bytes, msgs, rendered>>
deskVars ==
    <<prompt_entry, gen_button, status_label, image_display, png_file, workers, clicks, ignored>>
vars == <<webVars, deskVars>>

\* ------------------------------------------------------------------ bounds

\* Longest text a user types into a text widget.
MaxLen == 3
\* Presses of the desktop app's Generate button in one behaviour.
MaxClicks == 3
\* Longest text a user types into the desktop app's prompt entry.
MaxEntryLen == 1

\* ------------------------------------------------------------------ strings

Chars == {" ", "a"}

Strings == UNION {[1..n -> Chars] : n \in 0..MaxLen}

IsSpace(c) == c = " "

RECURSIVE LStrip(_)
LStrip(s) == IF s # <<>> /\ IsSpace(Head(s)) THEN LStrip(Tail(s)) ELSE s

RECURSIVE RStrip(_)
RStrip(s) ==
    IF s # <<>> /\ IsSpace(s[Len(s)]) THEN RStrip(SubSeq(s, 1, Len(s) - 1)) ELSE s

\* str.strip()
Strip(s) == RStrip(LStrip(s))

\* s[:n]
Take(s, n) == SubSeq(s, 1, IF Len(s) < n THEN Len(s) ELSE n)

\* needle in s
Contains(s, needle) ==
    \E i \in 1..(Len(s) - Len(needle) + 1) :
        SubSeq(s, i, i + Len(needle) - 1) = needle

\* Optional values: None, or a byte string.
None == [isNone |-> TRUE, bytes |-> <<>>]
Some(b) == [isNone |-> FALSE, bytes |-> b]

\* Python truthiness of an Optional[bytes]: None and b"" are falsy.
Truthy(v) == ~v.isNone /\ Len(v.bytes) > 0

\* ------------------------------------------------------------------ web form: widgets

StepsMin == 10
StepsMax == 50
StepsStep == 5
GuidanceMin == 10
GuidanceMax == 150
GuidanceStep == 5

\* The values an st.slider(min, max, value, step) widget can return.
SliderValues(lo, hi, step) == {lo + k * step : k \in 0..((hi - lo) \div step)}

StepsValues == SliderValues(StepsMin, StepsMax, StepsStep)
GuidanceValues == SliderValues(GuidanceMin, GuidanceMax, GuidanceStep)

\* ------------------------------------------------------------------ web form: responses

ErrorTextLen == 300

ImageWord == <<"i", "m", "a", "g", "e">>
ImagePng == <<"i", "m", "a", "g", "e", "/", "p", "n", "g">>
TextPlain == <<"t", "e", "x", "t", "/", "p", "l", "a", "i", "n">>

NoHeaders == [k \in {} |-> <<>>]
HeaderSets == {NoHeaders, [k \in {"Content-Type"} |-> ImagePng],
               [k \in {"Content-Type"} |-> TextPlain]}

\* HeadersGet with an image type as the default.
HeadersGetImageDefault(h, key, default) == IF key \in DOMAIN h THEN h[key] ELSE ImagePng

\* dict.get(key, default)
HeadersGet(h, key, default) == IF key \in DOMAIN h THEN h[key] ELSE default

PngMagic == <<"P", "N", "G">>
EmptyBody == <<>>
PngBody == PngMagic \o <<"d">>
TruncatedBody == PngMagic
LongBody == [i \in 1..(ErrorTextLen + 1) |-> "x"]
Bodies == {EmptyBody, PngBody, TruncatedBody, LongBody}

Statuses == {200, 401, 403, 404, 500, 503}

\* What requests.post can raise.  ConnectTimeout is both a ConnectionError and a
\* Timeout; TooManyRedirects is a RequestException that is neither.
Exceptions == {"Timeout", "ConnectTimeout", "ConnectionError", "TooManyRedirects"}

IsTimeout(e) == e \in {"Timeout", "ConnectTimeout"}
IsConnectionError(e) == e \in {"ConnectionError", "ConnectTimeout"}

NoResponse == [raises |-> "none", status_code |-> 0, headers |-> NoHeaders, content |-> <<>>]

Responses ==
    [raises : {"none"}, status_code : Statuses, headers : HeaderSets, content : Bodies]
    \cup [raises : Exceptions, status_code : {0}, headers : {NoHeaders}, content : {<<>>}]

\* response.text: the bodies of the model are ASCII, one character per byte.
ResponseText(r) == r.content

Msg(level, kind, code, detail) ==
    [level |-> level, kind |-> kind, code |-> code, detail |-> detail]

\* ------------------------------------------------------------------ web form: query()

\* StatusError without its 503 branch.
StatusErrorNo503(r) ==
    IF r.status_code = 401 THEN <<Msg("error", "InvalidToken", 0, <<>>)>>
    ELSE IF r.status_code = 403 THEN <<Msg("error", "AccessDenied", 0, <<>>)>>
    ELSE IF r.status_code # 200
         THEN <<Msg("error", "ApiError", r.status_code, Take(ResponseText(r), ErrorTextLen))>>
    ELSE <<>>

\* Lines 32-46: the message for a status other than 200 (none for 200).
StatusError(r) ==
    IF r.status_code = 401 THEN <<Msg("error", "InvalidToken", 0, <<>>)>>
    ELSE IF r.status_code = 403 THEN <<Msg("error", "AccessDenied", 0, <<>>)>>
    ELSE IF r.status_code = 503 THEN <<Msg("warning", "ModelLoading", 0, <<>>)>>
    ELSE IF r.status_code # 200
         THEN <<Msg("error", "ApiError", r.status_code, Take(ResponseText(r), ErrorTextLen))>>
    ELSE <<>>

\* Line 49: "image" in content_type
IsImageType(content_type) == Contains(content_type, ImageWord)

\* QueryBody returning the body cut like the error texts.
QueryBodyCut(r) ==
    IF StatusError(r) # <<>>
    THEN [ret |-> None, msgs |-> StatusError(r), raised |-> "none"]
    ELSE IF ~IsImageType(HeadersGet(r.headers, "Content-Type", <<>>))
    THEN [ret |-> None,
          msgs |-> <<Msg("error", "UnexpectedResponse", 0, Take(ResponseText(r), ErrorTextLen))>>,
          raised |-> "none"]
    ELSE [ret |-> Some(Take(r.content, ErrorTextLen)), msgs |-> <<>>, raised |-> "none"]

\* Lines 32-53: what query() does with a response that requests.post returned.
QueryBody(r) ==
    IF StatusError(r) # <<>>
    THEN [ret |-> None, msgs |-> StatusError(r), raised |-> "none"]
    ELSE IF ~IsImageType(HeadersGet(r.headers, "Content-Type", <<>>))
    THEN [ret |-> None,
          msgs |-> <<Msg("error", "UnexpectedResponse", 0, Take(ResponseText(r), ErrorTextLen))>>,
          raised |-> "none"]
    ELSE [ret |-> Some(r.content), msgs |-> <<>>, raised |-> "none"]

\* Lines 55-60: the except clauses, tried in order; anything else propagates.
QueryExcept(e) ==
    IF IsTimeout(e)
    THEN [ret |-> None, msgs |-> <<Msg("error", "TimedOut", 0, <<>>)>>, raised |-> "none"]
    ELSE IF IsConnectionError(e)
    THEN [ret |-> None, msgs |-> <<Msg("error", "ConnectionError", 0, <<>>)>>, raised |-> "none"]
    ELSE [ret |-> None, msgs |-> <<>>, raised |-> e]

\* query(): its return value, the messages it displays, the exception it lets through.
Query(r) == IF r.raises = "none" THEN QueryBody(r) ELSE QueryExcept(r.raises)

\* AfterPost with a retry of a 503 response.
AfterPostRetry(r) ==
    IF r.raises = "none" /\ r.status_code = 503 THEN "query"
    ELSE IF Query(r).raised = "none" THEN "returned" ELSE "crashed"

\* Where control goes when requests.post is over: back into the handler, or out
\* of the script with the exception.  query() never calls requests.post again.
AfterPost(r) == IF Query(r).raised = "none" THEN "returned" ELSE "crashed"

\* ------------------------------------------------------------------ web form: the handler

NoRequest ==
    [sent |-> FALSE, token |-> <<>>, inputs |-> <<>>,
     num_inference_steps |-> 0, guidance_scale |-> 0]

\* TokenMissing without the strip.
TokenMissingNoStrip(tok) == tok = <<>>

\* Line 122: not hf_token.strip()
TokenMissing(tok) == Strip(tok) = <<>>

\* Line 126: not prompt.strip()
PromptMissing(pr) == Strip(pr) = <<>>

\* BuildRequest with the prompt as typed.
BuildRequestRaw(tok, pr, st, gd) ==
    [sent |-> FALSE, token |-> Strip(tok), inputs |-> pr,
     num_inference_steps |-> st, guidance_scale |-> gd]

\* Lines 131-139: the payload and the token handed to query().
BuildRequest(tok, pr, st, gd) ==
    [sent |-> FALSE, token |-> Strip(tok), inputs |-> Strip(pr),
     num_inference_steps |-> st, guidance_scale |-> gd]

\* Line 143: Image.open accepts bytes that start with an image signature.
CanOpen(b) == Len(b) >= Len(PngMagic) /\ SubSeq(b, 1, Len(PngMagic)) = PngMagic

\* Lines 145-157: st.image and image.save decode the pixel data, which fails
\* on a file that has a signature and nothing behind it.
CanDecode(b) == CanOpen(b) /\ Len(b) > Len(PngMagic)

\* Lines 141-159: what the handler displays for the value query() returned.
Render(v) ==
    IF ~Truthy(v) THEN [msgs |-> <<>>, rendered |-> FALSE]
    ELSE IF ~CanOpen(v.bytes)
    THEN [msgs |-> <<Msg("error", "RenderError", 0, <<>>)>>, rendered |-> FALSE]
    ELSE IF ~CanDecode(v.bytes)
    THEN [msgs |-> <<Msg("success", "Generated", 0, <<>>),
                     Msg("error", "RenderError", 0, <<>>)>>,
          rendered |-> FALSE]
    ELSE [msgs |-> <<Msg("success", "Generated", 0, <<>>)>>, rendered |-> TRUE]

\* ------------------------------------------------------------------ desktop app: initial state

NoImage == [made |-> FALSE, of |-> <<>>]
ImageOf(p) == [made |-> TRUE, of |-> p]

Workers == 1..MaxClicks

EntryTexts == UNION {[1..n -> Chars] : n \in 0..MaxEntryLen}

\* A thread that has not been started, and one that has finished.
Unborn == [pc |-> "unborn", prompt |-> <<>>, image |-> NoImage, exc |-> "none"]
Finished == [pc |-> "done", prompt |-> <<>>, image |-> NoImage, exc |-> "none"]

InFlight == {w \in Workers : workers[w].pc \notin {"unborn", "done"}}

InitDesktop ==
    /\ prompt_entry = <<>>
    /\ gen_button = [state |-> "normal", text |-> "Generate Image"]
    /\ status_label = [text |-> "Ready", color |-> "gray"]
    /\ image_display = NoImage
    /\ png_file = NoImage
    /\ workers = [w \in Workers |-> Unborn]
    /\ clicks = 0
    /\ ignored = 0

\* ------------------------------------------------------------------ web form: actions

InitWeb ==
    /\ pc = "idle"
    /\ hf_token = <<>>
    /\ prompt = <<>>
    /\ request = NoRequest
    /\ posts = 0
    /\ response = NoResponse
    /\ image_bytes = None
    /\ msgs = <<>>
    /\ rendered = FALSE

\* A user interaction starts a new run of the script: the page and the script's
\* variables of the previous run are gone.
ScriptRerun ==
    /\ pc \in {"idle", "stopped", "done", "crashed"}
    /\ pc' = "running"
    /\ hf_token' = <<>>
    /\ prompt' = <<>>
    /\ request' = NoRequest
    /\ posts' = 0
    /\ response' = NoResponse
    /\ image_bytes' = None
    /\ msgs' = <<>>
    /\ rendered' = FALSE
    /\ UNCHANGED deskVars

\* Lines 71-139: the widgets are read, and if the button was pressed the
\* handler checks the token, then the prompt, and calls query().
RunScript(tok, pr, st, gd, pressed) ==
    /\ pc = "running"
    /\ hf_token' = tok
    /\ prompt' = pr
    /\ IF ~pressed
       THEN pc' = "idle" /\ UNCHANGED <<request, msgs>>
       ELSE IF TokenMissing(tok)
       THEN /\ msgs' = Append(msgs, Msg("warning", "TokenMissing", 0, <<>>))
            /\ pc' = "stopped"
            /\ UNCHANGED request
       ELSE IF PromptMissing(pr)
       THEN /\ msgs' = Append(msgs, Msg("warning", "PromptMissing", 0, <<>>))
            /\ pc' = "stopped"
            /\ UNCHANGED request
       ELSE /\ request' = BuildRequest(tok, pr, st, gd)
            /\ pc' = "query"
            /\ UNCHANGED msgs
    /\ UNCHANGED <<posts, response, image_bytes, rendered, deskVars>>

\* Line 30: requests.post sends the request.
Post ==
    /\ pc = "query"
    /\ request' = [request EXCEPT !.sent = TRUE]
    /\ posts' = posts + 1
    /\ pc' = "posting"
    /\ UNCHANGED <<hf_token, prompt, response, image_bytes, msgs, rendered, deskVars>>

\* Line 30: the request has left for the endpoint; requests.post blocks until
\* the response, or a failure, comes back.
Deliver ==
    /\ pc = "posting"
    /\ request' = NoRequest
    /\ pc' = "waiting"
    /\ UNCHANGED <<hf_token, prompt, posts, response, image_bytes, msgs, rendered, deskVars>>

\* Lines 30-60: requests.post returns r or raises; query() displays its message
\* and returns, or the exception leaves the script.
QueryReturns(r) ==
    /\ pc = "waiting"
    /\ response' = r
    /\ UNCHANGED request
    /\ image_bytes' = Query(r).ret
    /\ msgs' = msgs \o Query(r).msgs
    /\ pc' = AfterPost(r)
    /\ UNCHANGED <<hf_token, prompt, posts, rendered, deskVars>>

\* Lines 141-159: the handler renders what query() returned.
RenderResult ==
    /\ pc = "returned"
    /\ msgs' = msgs \o Render(image_bytes).msgs
    /\ rendered' = Render(image_bytes).rendered
    /\ pc' = "done"
    /\ UNCHANGED <<hf_token, prompt, request, posts, response, image_bytes, deskVars>>

Init == InitWeb /\ InitDesktop

Next ==
    \/ ScriptRerun
    \/ /\ pc = "running"
       /\ \E tok \in Strings, pr \in Strings, st \in StepsValues, gd \in GuidanceValues,
             pressed \in BOOLEAN : RunScript(tok, pr, st, gd, pressed)
    \/ Post
    \/ Deliver
    \/ /\ pc = "waiting"
       /\ \E r \in Responses : QueryReturns(r)
    \/ RenderResult

Spec == Init /\ [][Next]_vars

\* ------------------------------------------------------------------ desktop app: actions

InitDesk == InitWeb /\ InitDesktop

\* The user edits the prompt entry.
TypePrompt(p) ==
    /\ p # prompt_entry
    /\ prompt_entry' = p
    /\ UNCHANGED <<gen_button, status_label, image_display, png_file, workers, clicks, ignored>>
    /\ UNCHANGED webVars

\* ButtonGenerating with the button left enabled.
ButtonLeftEnabled == [state |-> "normal", text |-> "Generating..."]

\* Line 68: the button while a generation runs.
ButtonGenerating == [state |-> "disabled", text |-> "Generating..."]

\* Line 91: the button as the worker's finally block leaves it.
ButtonReady == [state |-> "normal", text |-> "Generate Image"]

\* Lines 61-72, run on the UI thread for press number n.
start_generation(n) ==
    IF prompt_entry = <<>>
    THEN /\ status_label' = [text |-> "Please enter a prompt first!", color |-> "red"]
         /\ UNCHANGED <<gen_button, workers>>
    ELSE /\ gen_button' = ButtonGenerating
         /\ status_label' = [text |-> "Processing AI model...", color |-> "yellow"]
         /\ workers' = [workers EXCEPT ![n] =
                            [pc |-> "pipe", prompt |-> prompt_entry,
                             image |-> NoImage, exc |-> "none"]]

\* Lines 45-51: a press of gen_button runs its command unless the button is
\* disabled, in which case the widget swallows the press.
ClickGenerate ==
    /\ clicks < MaxClicks
    /\ clicks' = clicks + 1
    /\ IF gen_button.state = "disabled"
       THEN /\ ignored' = ignored + 1
            /\ UNCHANGED <<gen_button, status_label, workers>>
       ELSE /\ start_generation(clicks + 1)
            /\ UNCHANGED ignored
    /\ UNCHANGED <<prompt_entry, image_display, png_file>>
    /\ UNCHANGED webVars

\* A statement of the try block raises: an Exception goes to the except
\* clause, any other BaseException straight to the finally block.
Raise(w, e) ==
    /\ workers' = [workers EXCEPT ![w].exc = e,
                                  ![w].pc = IF e = "Exception" THEN "except" ELSE "finally"]
    /\ UNCHANGED <<prompt_entry, gen_button, status_label, image_display, png_file,
                   clicks, ignored>>
    /\ UNCHANGED webVars

\* Lines 77-78: the pipeline produces the image for the prompt.
Pipe(w) ==
    /\ workers[w].pc = "pipe"
    /\ workers' = [workers EXCEPT ![w].image = ImageOf(workers[w].prompt), ![w].pc = "save"]
    /\ UNCHANGED <<prompt_entry, gen_button, status_label, image_display, png_file,
                   clicks, ignored>>
    /\ UNCHANGED webVars

\* Line 81: image.save("generated.png")
Save(w) ==
    /\ workers[w].pc = "save"
    /\ png_file' = workers[w].image
    /\ workers' = [workers EXCEPT ![w].pc = "show"]
    /\ UNCHANGED <<prompt_entry, gen_button, status_label, image_display, clicks, ignored>>
    /\ UNCHANGED webVars

\* Lines 84-86: the image is shown.
Show(w) ==
    /\ workers[w].pc = "show"
    /\ image_display' = workers[w].image
    /\ workers' = [workers EXCEPT ![w].pc = "status"]
    /\ UNCHANGED <<prompt_entry, gen_button, status_label, png_file, clicks, ignored>>
    /\ UNCHANGED webVars

\* Line 87
Complete(w) ==
    /\ workers[w].pc = "status"
    /\ status_label' = [text |-> "Generation Complete!", color |-> "green"]
    /\ workers' = [workers EXCEPT ![w].pc = "finally"]
    /\ UNCHANGED <<prompt_entry, gen_button, image_display, png_file, clicks, ignored>>
    /\ UNCHANGED webVars

\* Lines 77-87: any statement of the try block may raise instead.
Fail(w) ==
    /\ workers[w].pc \in {"pipe", "save", "show", "status"}
    /\ \E e \in {"Exception", "BaseException"} : Raise(w, e)

\* Lines 88-89
Except(w) ==
    /\ workers[w].pc = "except"
    /\ status_label' = [text |-> "Error", color |-> "red"]
    /\ workers' = [workers EXCEPT ![w].pc = "finally"]
    /\ UNCHANGED <<prompt_entry, gen_button, image_display, png_file, clicks, ignored>>
    /\ UNCHANGED webVars

\* Finally with the re-enable moved to the end of the try block.
FinallyOnSuccess(w) ==
    /\ workers[w].pc = "finally"
    /\ gen_button' = IF workers[w].exc = "none" THEN ButtonReady ELSE gen_button
    /\ workers' = [workers EXCEPT ![w] = Finished]
    /\ UNCHANGED <<prompt_entry, status_label, image_display, png_file, clicks, ignored>>
    /\ UNCHANGED webVars

\* Lines 90-91
Finally(w) ==
    /\ workers[w].pc = "finally"
    /\ gen_button' = ButtonReady
    /\ workers' = [workers EXCEPT ![w] = Finished]
    /\ UNCHANGED <<prompt_entry, status_label, image_display, png_file, clicks, ignored>>
    /\ UNCHANGED webVars

\* Lines 74-91: one step of worker thread w.
generate_image(w) ==
    \/ Pipe(w)
    \/ Save(w)
    \/ Show(w)
    \/ Complete(w)
    \/ Fail(w)
    \/ Except(w)
    \/ Finally(w)

NextDesk ==
    \/ \E p \in EntryTexts : TypePrompt(p)
    \/ ClickGenerate
    \/ \E w \in Workers : generate_image(w)

\* Every started thread keeps being scheduled.
DeskSpec ==
    InitDesk /\ [][NextDesk]_vars /\ \A w \in Workers : WF_vars(generate_image(w))

\* ------------------------------------------------------------------ properties: web form

IsBlank(s) == \A i \in 1..Len(s) : s[i] = " "

FirstChars(s, n) == [i \in 1..(IF Len(s) < n THEN Len(s) ELSE n) |-> s[i]]

\* The button was pressed in this script run.
Pressed == pc \notin {"idle", "running"}

\* requests.post returned a response (it did not raise).
GotStatus(code) == response.raises = "none" /\ response.status_code = code

HasImageType ==
    /\ "Content-Type" \in DOMAIN response.headers
    /\ \E i \in 1..Len(response.headers["Content-Type"]) :
          /\ i + 4 <= Len(response.headers["Content-Type"])
          /\ [k \in 1..5 |-> response.headers["Content-Type"][i + k - 1]] = ImageWord

\* C1: a press with a blank token or a blank prompt halts the script with one
\* warning and without any HTTP POST; the token is checked before the prompt.
C1_BlankInputHalts ==
    (Pressed /\ (IsBlank(hf_token) \/ IsBlank(prompt))) =>
        /\ pc = "stopped"
        /\ posts = 0
        /\ request = NoRequest
        /\ response = NoResponse
        /\ msgs = <<Msg("warning",
                        IF IsBlank(hf_token) THEN "TokenMissing" ELSE "PromptMissing",
                        0, <<>>)>>

C1_Witness ==
    /\ pc = "stopped"
    /\ hf_token = <<" ">>
    /\ prompt = <<>>
    /\ msgs = <<Msg("warning", "TokenMissing", 0, <<>>)>>

\* C2: for a status other than 200, query() returns None and displays exactly one
\* message, chosen by the status alone: 401 invalid token, 403 access denied,
\* 503 model loading, anything else the API error with the code and the first
\* 300 characters of the body.
C2_StatusAlone ==
    (response.raises = "none" /\ response.status_code \notin {0, 200}) =>
        /\ pc \in {"returned", "done"}
        /\ image_bytes = None
        /\ msgs = <<CASE response.status_code = 401 -> Msg("error", "InvalidToken", 0, <<>>)
                      [] response.status_code = 403 -> Msg("error", "AccessDenied", 0, <<>>)
                      [] response.status_code = 503 -> Msg("warning", "ModelLoading", 0, <<>>)
                      [] OTHER -> Msg("error", "ApiError", response.status_code,
                                      FirstChars(response.content, 300))>>

C2_Witness ==
    /\ pc = "done"
    /\ GotStatus(500)
    /\ HasImageType
    /\ response.content = LongBody
    /\ image_bytes = None
    /\ Len(msgs) = 1
    /\ msgs[1].kind = "ApiError"
    /\ Len(msgs[1].detail) = 300

\* C3: for a 200 response whose Content-Type contains "image", query() returns
\* response.content unchanged and displays nothing.
C3_ImageBytesUnmodified ==
    (GotStatus(200) /\ HasImageType) =>
        /\ pc \in {"returned", "done"}
        /\ image_bytes = Some(response.content)
        /\ pc = "returned" => msgs = <<>>

C3_Witness ==
    /\ pc = "returned"
    /\ GotStatus(200)
    /\ HasImageType
    /\ response.content = LongBody
    /\ image_bytes = Some(LongBody)
    /\ msgs = <<>>

\* C4: for a 200 response whose Content-Type is absent or does not contain
\* "image", query() returns None and displays the unexpected-response message.
C4_NonImageRejected ==
    (GotStatus(200) /\ ~HasImageType) =>
        /\ pc \in {"returned", "done"}
        /\ image_bytes = None
        /\ msgs = <<Msg("error", "UnexpectedResponse", 0, FirstChars(response.content, 300))>>

C4_Witness ==
    /\ pc = "done"
    /\ GotStatus(200)
    /\ response.headers = NoHeaders
    /\ response.content = PngBody
    /\ image_bytes = None
    /\ ~rendered

\* C5: whatever requests.post raises, query() displays a message and returns
\* None; no exception leaves query().
C5_NoExceptionEscapes ==
    response.raises # "none" =>
        /\ pc \in {"returned", "done"}
        /\ image_bytes = None
        /\ Len(msgs) = 1

\* C6: a submission issues at most one HTTP POST, whatever the outcome.
C6_AtMostOnePost == posts <= 1 /\ (posts = 1 => Pressed)

C6_Witness ==
    /\ pc = "done"
    /\ GotStatus(503)
    /\ posts = 1

\* C7: every payload that is posted has stripped, non-empty inputs and token,
\* num_inference_steps in 10..50 in steps of 5, guidance_scale in 1.0..15.0 in
\* steps of 0.5 (in tenths: 10..150 in steps of 5).
C7_PayloadInRange ==
    request.sent =>
        /\ request.inputs # <<>>
        /\ request.inputs[1] # " " /\ request.inputs[Len(request.inputs)] # " "
        /\ request.token # <<>>
        /\ request.token[1] # " " /\ request.token[Len(request.token)] # " "
        /\ request.num_inference_steps \in 10..50
        /\ request.num_inference_steps % 5 = 0
        /\ request.guidance_scale \in 10..150
        /\ request.guidance_scale % 5 = 0

C7_Witness ==
    /\ request.sent
    /\ prompt = <<" ", "a">>
    /\ hf_token = <<"a", " ">>
    /\ request.inputs = <<"a">>
    /\ request.token = <<"a">>
    /\ request.num_inference_steps = 50
    /\ request.guidance_scale = 10

\* C9: a submission that passed the token and prompt checks ends with the image
\* rendered or with at least one message displayed.
C9_NoSilentEnd == pc = "done" => (rendered \/ msgs # <<>>)

\* ------------------------------------------------------------------ properties: desktop app

\* C8 as stated: nothing caps the workers, so every press of the button with a
\* prompt in the entry starts one more worker.
C8_NoCapOnWorkers ==
    [][(clicks' = clicks + 1 /\ prompt_entry # <<>>) =>
           Cardinality(InFlight') = Cardinality(InFlight) + 1]_vars

\* C8 as amended: the disabled button caps the workers at one; no two workers
\* are in flight at the same time, and the button is disabled while one is.
C8_OneWorkerAtATime ==
    /\ Cardinality(InFlight) <= 1
    /\ InFlight # {} => gen_button.state = "disabled"

C8_Witness ==
    /\ ignored >= 2
    /\ Cardinality(InFlight) = 1
    /\ prompt_entry # <<>>

\* C10: a worker starts only in a step that disables the button; a press with an
\* empty prompt starts no worker and leaves the button as it was; a worker that
\* finishes leaves the button enabled with its text restored; and a disabled
\* button is eventually enabled again.
C10_ButtonComesBack ==
    /\ [][(\E w \in Workers : workers[w].pc = "unborn" /\ workers'[w].pc # "unborn") =>
              /\ gen_button.state = "normal"
              /\ gen_button' = [state |-> "disabled", text |-> "Generating..."]]_vars
    /\ [][(clicks' = clicks + 1 /\ prompt_entry = <<>>) =>
              /\ workers' = workers
              /\ gen_button' = gen_button]_vars
    /\ [][(\E w \in Workers : workers[w].pc # "done" /\ workers'[w].pc = "done") =>
              gen_button' = [state |-> "normal", text |-> "Generate Image"]]_vars
    /\ (gen_button.state = "disabled") ~>
           (gen_button = [state |-> "normal", text |-> "Generate Image"])

C10_Witness ==
    /\ \E w \in Workers : workers[w].pc = "done"
    /\ status_label.text = "Error"
    /\ gen_button = [state |-> "normal", text |-> "Generate Image"]

====
